---------------------------- MODULE Spec2Model ----------------------------
(***************************************************************************)
(* Model of run_expriments.py: the batch runner that resolves each         *)
(* experiment's arguments, serialises them to command-line tokens and runs *)
(* the training script once per experiment, stopping at the first failure. *)
(*                                                                         *)
(* A Python str is a sequence of one-character strings.  A Python dict is  *)
(* a sequence of entries [k, v] with distinct keys, in insertion order.    *)
(* A Python value is a record [t, b, n, s, l]: t is the type tag and the   *)
(* field that the tag selects carries the payload.                         *)
(***************************************************************************)
EXTENDS Integers, Sequences, FiniteSets

(* ---------------------------- bounds ---------------------------------- *)
MaxLen == 3
MaxCliKeys == 2
MaxArgKeys == 2
MaxBatch == 3

(* ---------------------------- strings --------------------------------- *)
UpperLetters == <<"A","B","C","D","E","F","G","H","I","J","K","L","M",
                  "N","O","P","Q","R","S","T","U","V","W","X","Y","Z">>
LowerLetters == <<"a","b","c","d","e","f","g","h","i","j","k","l","m",
                  "n","o","p","q","r","s","t","u","v","w","x","y","z">>
DigitChars == <<"0","1","2","3","4","5","6","7","8","9">>

Range(f) == {f[x] : x \in DOMAIN f}

\* characters that str.strip() with no argument removes
Whitespace == {" ", "\t", "\n", "\r"}

\* the character class [a-zA-Z0-9_-] of the regular expression
SlugClass == Range(UpperLetters) \cup Range(LowerLetters) \cup Range(DigitChars) \cup {"_", "-"}

\* str.lower() on one character
LowerChar(c) ==
    IF c \in Range(UpperLetters)
    THEN LowerLetters[CHOOSE j \in DOMAIN UpperLetters : UpperLetters[j] = c]
    ELSE c

lower(s) == [j \in 1..Len(s) |-> LowerChar(s[j])]

RECURSIVE LStrip(_, _)
LStrip(s, chars) ==
    IF s # <<>> /\ Head(s) \in chars THEN LStrip(Tail(s), chars) ELSE s

RECURSIVE RStrip(_, _)
RStrip(s, chars) ==
    IF s # <<>> /\ s[Len(s)] \in chars THEN RStrip(SubSeq(s, 1, Len(s) - 1), chars) ELSE s

\* str.strip(chars)
strip(s, chars) == RStrip(LStrip(s, chars), chars)

\* re.sub(r"[^a-zA-Z0-9_-]+", "-", s): every maximal run of characters
\* outside the class becomes one "-"
RECURSIVE re_sub(_)
re_sub(s) ==
    IF s = <<>> THEN <<>>
    ELSE IF Head(s) \in SlugClass THEN <<Head(s)>> \o re_sub(Tail(s))
    ELSE <<"-">> \o re_sub(LStrip(s, {c \in Range(s) : c \notin SlugClass}))

slugify_no_fallback(value) ==
    lower(strip(re_sub(strip(value, Whitespace)), {"-"}))

slugify_strip_first(value) ==
    LET r == lower(re_sub(strip(strip(value, Whitespace), {"-"})))
    IN  IF r = <<>> THEN <<"r", "u", "n">> ELSE r

slugify(value) ==
    LET r == lower(strip(re_sub(strip(value, Whitespace)), {"-"}))
    IN  IF r = <<>> THEN <<"r", "u", "n">> ELSE r

RECURSIVE Digits(_)
Digits(n) ==
    IF n < 10 THEN <<DigitChars[n + 1]>>
    ELSE Digits(n \div 10) \o <<DigitChars[(n % 10) + 1]>>

\* str(n) for an int
IntStr(n) == IF n < 0 THEN <<"-">> \o Digits(-n) ELSE Digits(n)


(* ---------------------------- values ---------------------------------- *)
\* None
PyNone == [t |-> "none", b |-> FALSE, n |-> 0, s |-> <<>>, l |-> <<>>]
\* FLAG = _FlagOnly(), compared by identity
FLAG == [t |-> "flag", b |-> FALSE, n |-> 0, s |-> <<>>, l |-> <<>>]
PyBool(x) == [t |-> "bool", b |-> x, n |-> 0, s |-> <<>>, l |-> <<>>]
PyInt(x) == [t |-> "int", b |-> FALSE, n |-> x, s |-> <<>>, l |-> <<>>]
PyStr(x) == [t |-> "str", b |-> FALSE, n |-> 0, s |-> x, l |-> <<>>]
\* the elements of a list or tuple are scalars [t, b, n, s]
PyList(x) == [t |-> "list", b |-> FALSE, n |-> 0, s |-> <<>>, l |-> x]
PyTuple(x) == [t |-> "tuple", b |-> FALSE, n |-> 0, s |-> <<>>, l |-> x]
ElemInt(x) == [t |-> "int", b |-> FALSE, n |-> x, s |-> <<>>]
ElemStr(x) == [t |-> "str", b |-> FALSE, n |-> 0, s |-> x]
ElemBool(x) == [t |-> "bool", b |-> x, n |-> 0, s |-> <<>>]
ElemNone == [t |-> "none", b |-> FALSE, n |-> 0, s |-> <<>>]

\* str(v) for a scalar
str(v) ==
    CASE v.t = "int" -> IntStr(v.n)
      [] v.t = "str" -> v.s
      [] v.t = "bool" -> IF v.b THEN <<"T", "r", "u", "e">> ELSE <<"F", "a", "l", "s", "e">>
      [] v.t = "none" -> <<"N", "o", "n", "e">>

(* ---------------------------- dicts ----------------------------------- *)
Keys(m) == {m[j].k : j \in DOMAIN m}
HasKey(m, key) == key \in Keys(m)
Get(m, key) == m[CHOOSE j \in DOMAIN m : m[j].k = key].v

\* d[key] = value: an existing key keeps its position
SetItem(m, key, value) ==
    IF HasKey(m, key)
    THEN [j \in DOMAIN m |-> IF m[j].k = key THEN [k |-> key, v |-> value] ELSE m[j]]
    ELSE Append(m, [k |-> key, v |-> value])

\* d.setdefault(key, value)
SetDefault(m, key, value) ==
    IF HasKey(m, key) THEN m ELSE Append(m, [k |-> key, v |-> value])

\* a slip: {**b, **a}
RECURSIVE Unpack_swapped(_, _)
Unpack_swapped(a, b) ==
    IF a = <<>> THEN b ELSE Unpack_swapped(Tail(a), SetItem(b, Head(a).k, Head(a).v))

\* {**a, **b}
RECURSIVE Unpack(_, _)
Unpack(a, b) ==
    IF b = <<>> THEN a ELSE Unpack(SetItem(a, Head(b).k, Head(b).v), Tail(b))

(* ---------------------------- paths ----------------------------------- *)
\* str(p / name) for a relative one-component name
PathJoin(p, name) == p \o <<"/">> \o name

PROJECT_PARENT == <<"/", "w">>
PROJECT_ROOT == PathJoin(PROJECT_PARENT, <<"t", "s">>)
TRAIN_SCRIPT == PathJoin(PROJECT_ROOT, <<"t", "r", "a", "i", "n", ".", "p", "y">>)
sys_executable == <<"/", "b", "i", "n", "/", "p", "y", "t", "h", "o", "n">>

k_eval == <<"e", "v", "a", "l">>
k_model_path == <<"m", "o", "d", "e", "l", "_", "p", "a", "t", "h">>
k_source_path == <<"s", "o", "u", "r", "c", "e", "_", "p", "a", "t", "h">>
k_resolution == <<"r", "e", "s", "o", "l", "u", "t", "i", "o", "n">>
k_max_shapes == <<"m", "a", "x", "_", "s", "h", "a", "p", "e", "s">>
k_outdoor == <<"o", "u", "t", "d", "o", "o", "r">>

BASE_ARGS_0 == << [k |-> k_eval, v |-> PyBool(TRUE)] >>

DefaultModelPath(name) ==
    PyStr(PathJoin(PathJoin(PathJoin(PROJECT_ROOT, <<"o", "u", "t", "p", "u", "t">>), <<"e", "x", "p", "e", "r", "i", "m", "e", "n", "t", "s">>), slugify(name)))

DefaultSourcePath(name) ==
    PyStr(PathJoin(PathJoin(PathJoin(PROJECT_PARENT, <<"d", "a", "t", "a", "s", "e", "t">>), <<"a", "s", "s", "e", "t", "s">>), slugify(name)))

(* ------------------------ Experiment.resolved_args -------------------- *)
\* The call's return value (ret) and the contents, after the call, of the
\* two dict objects it was handed: base and self.args.
resolved_args_in_place(self, base) ==
    LET overrides0 == Unpack(base, self.args)
        overrides1 == SetDefault(overrides0, k_model_path, DefaultModelPath(self.name))
        overrides2 == SetDefault(overrides1, k_source_path, DefaultSourcePath(self.name))
    IN  [ret |-> overrides2, base |-> overrides2, args |-> self.args]

resolved_args_force_default(self, base) ==
    LET overrides0 == Unpack(base, self.args)
        overrides1 == SetItem(overrides0, k_model_path, DefaultModelPath(self.name))
        overrides2 == SetItem(overrides1, k_source_path, DefaultSourcePath(self.name))
    IN  [ret |-> overrides2, base |-> base, args |-> self.args]

resolved_args(self, base) ==
    LET overrides0 == Unpack(base, self.args)
        overrides1 == SetDefault(overrides0, k_model_path, DefaultModelPath(self.name))
        overrides2 == SetDefault(overrides1, k_source_path, DefaultSourcePath(self.name))
    IN  [ret |-> overrides2, base |-> base, args |-> self.args]

(* ---------------------------- args_to_cli ----------------------------- *)
Flag(key) == <<"-", "-">> \o key

RECURSIVE args_to_cli_reversed_loop(_, _)
args_to_cli_reversed_loop(items, cli_args) ==
    IF items = <<>> THEN cli_args
    ELSE LET key == Head(items).k
             value == Head(items).v
             flag == Flag(key)
             rest == Tail(items)
         IN  IF value.t = "none" THEN args_to_cli_reversed_loop(rest, cli_args)
             ELSE IF value.t = "flag" THEN args_to_cli_reversed_loop(rest, <<flag>> \o cli_args)
             ELSE IF value.t = "bool"
                  THEN args_to_cli_reversed_loop(rest, IF value.b THEN <<flag>> \o cli_args ELSE cli_args)
             ELSE IF value.t \in {"list", "tuple"}
                  THEN args_to_cli_reversed_loop(rest,
                           <<flag>> \o [j \in 1..Len(value.l) |-> str(value.l[j])] \o cli_args)
             ELSE args_to_cli_reversed_loop(rest, <<flag, str(value)>> \o cli_args)

\* a slip: the groups are pushed on the front of the result
args_to_cli_reversed(arg_mapping) == args_to_cli_reversed_loop(arg_mapping, <<>>)

RECURSIVE args_to_cli_no_bool_loop(_, _)
args_to_cli_no_bool_loop(items, cli_args) ==
    IF items = <<>> THEN cli_args
    ELSE LET key == Head(items).k
             value == Head(items).v
             flag == Flag(key)
             rest == Tail(items)
         IN  IF value.t = "none" THEN args_to_cli_no_bool_loop(rest, cli_args)
             ELSE IF value.t = "flag" THEN args_to_cli_no_bool_loop(rest, Append(cli_args, flag))
             ELSE IF value.t = "bool"
                  THEN args_to_cli_no_bool_loop(rest, cli_args \o <<flag, str(value)>>)
             ELSE IF value.t \in {"list", "tuple"}
                  THEN args_to_cli_no_bool_loop(rest,
                           Append(cli_args, flag) \o [j \in 1..Len(value.l) |-> str(value.l[j])])
             ELSE args_to_cli_no_bool_loop(rest, cli_args \o <<flag, str(value)>>)

\* a slip: the isinstance(value, bool) branch is missing
args_to_cli_no_bool(arg_mapping) == args_to_cli_no_bool_loop(arg_mapping, <<>>)

\* the for loop over arg_mapping.items(), cli_args being the accumulator
RECURSIVE args_to_cli_loop(_, _)
args_to_cli_loop(items, cli_args) ==
    IF items = <<>> THEN cli_args
    ELSE LET key == Head(items).k
             value == Head(items).v
             flag == Flag(key)
             rest == Tail(items)
         IN  IF value.t = "none" THEN args_to_cli_loop(rest, cli_args)
             ELSE IF value.t = "flag" THEN args_to_cli_loop(rest, Append(cli_args, flag))
             ELSE IF value.t = "bool"
                  THEN args_to_cli_loop(rest, IF value.b THEN Append(cli_args, flag) ELSE cli_args)
             ELSE IF value.t \in {"list", "tuple"}
                  THEN args_to_cli_loop(rest,
                           Append(cli_args, flag) \o [j \in 1..Len(value.l) |-> str(value.l[j])])
             ELSE args_to_cli_loop(rest, Append(Append(cli_args, flag), str(value)))

args_to_cli(arg_mapping) == args_to_cli_loop(arg_mapping, <<>>)


(* ---------------------------- experiments ----------------------------- *)
Entry(key, value) == [k |-> key, v |-> value]
Experiment(name, args) == [name |-> name, args |-> args]

EXPERIMENTS == <<
    Experiment(<<"b", "i", "c", "y", "c", "l", "e">>, <<Entry(k_resolution, PyInt(4)), Entry(k_max_shapes, PyInt(6400000)), Entry(k_outdoor, FLAG)>>),
    Experiment(<<"g", "a", "r", "d", "e", "n">>, <<Entry(k_resolution, PyInt(4)), Entry(k_max_shapes, PyInt(5200000)), Entry(k_outdoor, FLAG)>>),
    Experiment(<<"s", "t", "u", "m", "p">>, <<Entry(k_resolution, PyInt(4)), Entry(k_max_shapes, PyInt(4750000)), Entry(k_outdoor, FLAG)>>),
    Experiment(<<"b", "o", "n", "s", "a", "i">>, <<Entry(k_resolution, PyInt(2)), Entry(k_max_shapes, PyInt(3000000))>>),
    Experiment(<<"c", "o", "u", "n", "t", "e", "r">>, <<Entry(k_resolution, PyInt(2)), Entry(k_max_shapes, PyInt(2500000))>>),
    Experiment(<<"r", "o", "o", "m">>, <<Entry(k_resolution, PyInt(2)), Entry(k_max_shapes, PyInt(2100000))>>),
    Experiment(<<"k", "i", "t", "c", "h", "e", "n">>, <<Entry(k_resolution, PyInt(2)), Entry(k_max_shapes, PyInt(2400000))>>),
    Experiment(<<"t", "r", "a", "i", "n">>, <<Entry(k_resolution, PyInt(1)), Entry(k_max_shapes, PyInt(2500000)), Entry(k_outdoor, FLAG)>>),
    Experiment(<<"t", "r", "u", "c", "k">>, <<Entry(k_resolution, PyInt(1)), Entry(k_max_shapes, PyInt(2000000)), Entry(k_outdoor, FLAG)>>)
>>

(* ---------------------------- state ----------------------------------- *)
VARIABLES
    entry,        \* "__main__": the script is run; "run_all": run_all is called with a list
    experiments,  \* the list handed to run_all
    BASE_ARGS,    \* the module-level dict
    pc,           \* "loop", "wait" (inside subprocess.run), "returned", "raised", "exited"
    pos,          \* position in experiments of the for loop of run_all
    merged_args,  \* local of run_experiment
    command,      \* local of run_experiment
    started,      \* positions whose training process was started, in start order
    running,      \* positions whose training process is running
    exited,       \* [pos, returncode] of the processes that exited, in exit order
    raised,       \* the exception that left run_all, if any
    exit_code,    \* <<c>> once the interpreter has exited with status c
    hpc,          \* position of the caller of a single function
    value, slug, reslug,         \* slugify: argument, result, result of slugify(result)
    self, base, overrides,       \* resolved_args: receiver, argument, result
    arg_mapping, cli_args        \* args_to_cli: argument, result

runner_vars == <<entry, experiments, BASE_ARGS, pc, pos, merged_args, command,
                 started, running, exited, raised, exit_code>>
slug_vars == <<value, slug, reslug>>
resolve_vars == <<self, base, overrides>>
cli_vars == <<arg_mapping, cli_args>>
vars == <<runner_vars, hpc, slug_vars, resolve_vars, cli_vars>>

\* the parts of the state a specification does not use
RunnerIdle ==
    /\ entry = "none" /\ experiments = <<>> /\ BASE_ARGS = BASE_ARGS_0
    /\ pc = "idle" /\ pos = 1 /\ merged_args = <<>> /\ command = <<>>
    /\ started = <<>> /\ running = {} /\ exited = <<>> /\ raised = <<>>
    /\ exit_code = <<>>
SlugIdle == value = <<>> /\ slug = <<>> /\ reslug = <<>>
ResolveIdle == self = Experiment(<<>>, <<>>) /\ base = <<>> /\ overrides = <<>>
CliIdle == arg_mapping = <<>> /\ cli_args = <<>>

\* dicts of at most n entries with keys from keys and values from values
Mappings(keys, values, n) ==
    UNION { { m \in [1..len -> {Entry(key, val) : key \in keys, val \in values}] :
                \A x, y \in 1..len : x # y => m[x].k # m[y].k } : len \in 0..n }

Strings(alphabet, n) == UNION { [1..len -> alphabet] : len \in 0..n }

(* ---------------------------- the batch ------------------------------- *)
ReturnCodes == {0, 1, 2, -9}

ExperimentPool == {
    EXPERIMENTS[1],
    EXPERIMENTS[4],
    Experiment(<<"M", "y", " ", "R", "u", "n">>, <<Entry(k_model_path, PyStr(<<"/", "m">>)),
                             Entry(k_resolution, PyList(<<ElemInt(1), ElemInt(2)>>))>>) }

Batches == UNION { [1..len -> ExperimentPool] : len \in 0..MaxBatch }

Init ==
    /\ entry \in {"__main__", "run_all"}
    /\ experiments \in (IF entry = "__main__" THEN {EXPERIMENTS} ELSE Batches)
    /\ BASE_ARGS = BASE_ARGS_0
    /\ pc = "loop" /\ pos = 1
    /\ merged_args = <<>> /\ command = <<>>
    /\ started = <<>> /\ running = {} /\ exited = <<>>
    /\ raised = <<>> /\ exit_code = <<>>
    /\ hpc = "idle" /\ SlugIdle /\ ResolveIdle /\ CliIdle

\* a slip: subprocess.Popen(command), which does not wait
RunExperiment_no_wait ==
    /\ pc = "loop" /\ pos <= Len(experiments)
    /\ LET r == resolved_args(experiments[pos], BASE_ARGS)
       IN  /\ merged_args' = r.ret
           /\ BASE_ARGS' = r.base
           /\ experiments' = [experiments EXCEPT ![pos].args = r.args]
           /\ command' = <<sys_executable, TRAIN_SCRIPT>> \o args_to_cli(r.ret)
    /\ started' = Append(started, pos)
    /\ running' = running \cup {pos}
    /\ pos' = pos + 1
    /\ UNCHANGED <<entry, pc, exited, raised, exit_code, hpc, slug_vars, resolve_vars, cli_vars>>

\* run_all takes the next experiment; run_experiment builds the command and
\* subprocess.run starts the process and waits for it
RunExperiment ==
    /\ pc = "loop" /\ pos <= Len(experiments)
    /\ LET r == resolved_args(experiments[pos], BASE_ARGS)
       IN  /\ merged_args' = r.ret
           /\ BASE_ARGS' = r.base
           /\ experiments' = [experiments EXCEPT ![pos].args = r.args]
           /\ command' = <<sys_executable, TRAIN_SCRIPT>> \o args_to_cli(r.ret)
    /\ started' = Append(started, pos)
    /\ running' = running \cup {pos}
    /\ pc' = "wait"
    /\ UNCHANGED <<entry, pos, exited, raised, exit_code, hpc, slug_vars, resolve_vars, cli_vars>>

\* a slip: check=False, the return code is ignored
SubprocessExits_unchecked ==
    /\ pc = "wait"
    /\ \E returncode \in ReturnCodes :
        /\ running' = running \ {pos}
        /\ exited' = Append(exited, [pos |-> pos, returncode |-> returncode])
        /\ pos' = pos + 1 /\ pc' = "loop"
        /\ UNCHANGED <<raised, exit_code>>
    /\ UNCHANGED <<entry, experiments, BASE_ARGS, merged_args, command, started,
                   hpc, slug_vars, resolve_vars, cli_vars>>

\* a variant the script does not implement: the child's return code is
\* handed to sys.exit
SubprocessExits_propagating ==
    /\ pc = "wait"
    /\ \E returncode \in ReturnCodes :
        /\ running' = running \ {pos}
        /\ exited' = Append(exited, [pos |-> pos, returncode |-> returncode])
        /\ IF returncode # 0
           THEN /\ raised' = <<[type |-> "CalledProcessError", returncode |-> returncode]>>
                /\ pos' = pos
                /\ IF entry = "__main__"
                   THEN pc' = "exited" /\ exit_code' = <<returncode>>
                   ELSE pc' = "raised" /\ exit_code' = exit_code
           ELSE /\ pos' = pos + 1 /\ pc' = "loop"
                /\ UNCHANGED <<raised, exit_code>>
    /\ UNCHANGED <<entry, experiments, BASE_ARGS, merged_args, command, started,
                   hpc, slug_vars, resolve_vars, cli_vars>>

\* the training process exits and subprocess.run(check=True) returns, or
\* raises CalledProcessError on a non-zero return code; nothing catches it,
\* so it leaves run_all and, under __main__, the interpreter exits with 1
SubprocessExits ==
    /\ pc = "wait"
    /\ \E returncode \in ReturnCodes :
        /\ running' = running \ {pos}
        /\ exited' = Append(exited, [pos |-> pos, returncode |-> returncode])
        /\ IF returncode # 0
           THEN /\ raised' = <<[type |-> "CalledProcessError", returncode |-> returncode]>>
                /\ pos' = pos
                /\ IF entry = "__main__"
                   THEN pc' = "exited" /\ exit_code' = <<1>>
                   ELSE pc' = "raised" /\ exit_code' = exit_code
           ELSE /\ pos' = pos + 1 /\ pc' = "loop"
                /\ UNCHANGED <<raised, exit_code>>
    /\ UNCHANGED <<entry, experiments, BASE_ARGS, merged_args, command, started,
                   hpc, slug_vars, resolve_vars, cli_vars>>

\* the for loop is exhausted: run_all returns and, under __main__, the
\* interpreter exits with 0
RunAllReturns ==
    /\ pc = "loop" /\ pos > Len(experiments)
    /\ IF entry = "__main__"
       THEN pc' = "exited" /\ exit_code' = <<0>>
       ELSE pc' = "returned" /\ exit_code' = exit_code
    /\ UNCHANGED <<entry, experiments, BASE_ARGS, pos, merged_args, command, started,
                   running, exited, raised, hpc, slug_vars, resolve_vars, cli_vars>>

Next == RunExperiment \/ SubprocessExits \/ RunAllReturns

Spec == Init /\ [][Next]_vars


(* ---------------------------- the callers ----------------------------- *)
Alphabet == {"a", "B", "7", "_", "-", " ", "!"}

InitSlugify ==
    /\ value \in Strings(Alphabet, MaxLen) \cup {EXPERIMENTS[j].name : j \in DOMAIN EXPERIMENTS}
    /\ slug = <<>> /\ reslug = <<>>
    /\ hpc = "input" /\ RunnerIdle /\ ResolveIdle /\ CliIdle

CallSlugify ==
    /\ hpc = "input"
    /\ slug' = slugify(value)
    /\ hpc' = "slugified"
    /\ UNCHANGED <<value, reslug, runner_vars, resolve_vars, cli_vars>>

CallSlugifyAgain ==
    /\ hpc = "slugified"
    /\ reslug' = slugify(slug)
    /\ hpc' = "reslugified"
    /\ UNCHANGED <<value, slug, runner_vars, resolve_vars, cli_vars>>

NextSlugify == CallSlugify \/ CallSlugifyAgain

SpecSlugify == InitSlugify /\ [][NextSlugify]_vars

ResolveKeys == {k_model_path, k_source_path, k_resolution}
BaseValues == {PyStr(<<"/", "b">>), PyBool(TRUE)}
ArgValues == {PyStr(<<"/", "e">>), PyNone}
ResolveNames == {<<"b", "i", "c", "y", "c", "l", "e">>, <<"M", "y", " ", "R", "u", "n">>, <<>>}

InitResolve ==
    /\ base \in Mappings(ResolveKeys, BaseValues, MaxArgKeys)
    /\ self \in {Experiment(name, args) :
                    name \in ResolveNames, args \in Mappings(ResolveKeys, ArgValues, MaxArgKeys)}
    /\ overrides = <<>>
    /\ hpc = "input" /\ RunnerIdle /\ SlugIdle /\ CliIdle

CallResolvedArgs ==
    /\ hpc = "input"
    /\ LET r == resolved_args(self, base)
       IN  /\ overrides' = r.ret
           /\ base' = r.base
           /\ self' = [self EXCEPT !.args = r.args]
    /\ hpc' = "resolved"
    /\ UNCHANGED <<runner_vars, slug_vars, cli_vars>>

NextResolve == CallResolvedArgs

SpecResolve == InitResolve /\ [][NextResolve]_vars

CliKeys == {<<"a">>, <<"b">>, <<"c">>}
CliValues == {
    PyNone, PyBool(TRUE), PyBool(FALSE), FLAG, PyInt(4), PyInt(-1), PyStr(<<"x", " ", "y">>),
    PyList(<<ElemInt(1), ElemInt(2)>>), PyList(<<>>),
    PyTuple(<<ElemStr(<<"x">>), ElemInt(6400000), ElemBool(TRUE), ElemNone>>) }

InitCli ==
    /\ arg_mapping \in Mappings(CliKeys, CliValues, MaxCliKeys)
    /\ cli_args = <<>>
    /\ hpc = "input" /\ RunnerIdle /\ SlugIdle /\ ResolveIdle

CallArgsToCli ==
    /\ hpc = "input"
    /\ cli_args' = args_to_cli(arg_mapping)
    /\ hpc' = "serialized"
    /\ UNCHANGED <<arg_mapping, runner_vars, slug_vars, resolve_vars>>

NextCli == CallArgsToCli

SpecCli == InitCli /\ [][NextCli]_vars


(* ====================================================================== *)
(* The batch: Spec                                                        *)
(* ====================================================================== *)
Failed == pc \in {"raised", "exited"} /\ raised # <<>>
Failures == {j \in DOMAIN exited : exited[j].returncode # 0}

\* C1: once the training process of the experiment at position i has exited
\* non-zero, no experiment at a later position has been or is ever started,
\* no process is running, and the batch is in a failed state (the
\* CalledProcessError of that process has left run_all) from the very state
\* that follows the exit.
C1_FailFast ==
    \A j \in Failures :
        /\ j = Len(exited)
        /\ \A p \in Range(started) : p <= exited[j].pos
        /\ running = {}
        /\ Failed
        /\ raised = <<[type |-> "CalledProcessError", returncode |-> exited[j].returncode]>>

C1_Witness ==
    /\ Failures # {}
    /\ exited[Len(exited)].pos < Len(experiments)
    /\ Len(exited) >= 2
    /\ Failed

\* C2 as stated: the script's exit code is the return code of the first
\* failing training process, or 0 if every process succeeds.
C2_ExitCodePropagated ==
    (entry = "__main__" /\ pc = "exited") =>
        IF Failures # {}
        THEN exit_code = <<exited[CHOOSE j \in Failures : \A h \in Failures : j <= h].returncode>>
        ELSE exit_code = <<0>>

\* C2 as amended: run with no arguments, the script works on the fixed list
\* EXPERIMENTS; when it has exited, its exit code is 1 if some training
\* process exited non-zero, whatever that return code was, and 0 if all nine
\* processes ran and exited with 0; it has no exit code before.
C2_ExitCodeOneOrZero ==
    entry = "__main__" =>
        /\ Len(experiments) = Len(EXPERIMENTS)
        /\ \A j \in DOMAIN experiments : experiments[j] = EXPERIMENTS[j]
        /\ pc # "exited" => exit_code = <<>>
        /\ pc = "exited" =>
            IF Failures # {}
            THEN exit_code = <<1>>
            ELSE /\ exit_code = <<0>>
                 /\ exited = [j \in DOMAIN EXPERIMENTS |-> [pos |-> j, returncode |-> 0]]

C2_Witness ==
    /\ entry = "__main__" /\ pc = "exited"
    /\ Len(exited) = 3
    /\ exited[3].returncode = 2
    /\ exit_code = <<1>>

\* C3: at most one training process is running at any time, processes are
\* started in list order without gaps, and the process at position k+1 is
\* started only when the process at position k has exited with code 0.
C3_Sequential ==
    /\ Cardinality(running) <= 1
    /\ started = [j \in 1..Len(started) |-> j]
    /\ \A k \in 1..(Len(started) - 1) :
        /\ k \notin running
        /\ \E j \in DOMAIN exited : exited[j] = [pos |-> k, returncode |-> 0]

C3_Witness ==
    /\ Len(started) >= 3
    /\ running = {3}
    /\ Len(exited) = 2

BicycleModelPath == <<"/", "w", "/", "t", "s", "/", "o", "u", "t", "p", "u", "t", "/", "e", "x", "p", "e", "r", "i", "m", "e", "n", "t", "s", "/", "b", "i", "c", "y", "c", "l", "e">>
BicycleSourcePath == <<"/", "w", "/", "d", "a", "t", "a", "s", "e", "t", "/", "a", "s", "s", "e", "t", "s", "/", "b", "i", "c", "y", "c", "l", "e">>

\* C9: for the experiment bicycle with args {resolution: 4, max_shapes:
\* 6400000, outdoor: FLAG} resolved against the base {eval: True}, the
\* resolved dict has the keys eval, resolution, max_shapes, outdoor,
\* model_path, source_path in this order, the two paths being the defaults
\* that end in bicycle, and the command's arguments are --eval --resolution
\* 4 --max_shapes 6400000 --outdoor --model_path <path> --source_path <path>.
C9_EndToEnd ==
    (pc = "wait" /\ experiments[pos].name = <<"b", "i", "c", "y", "c", "l", "e">>) =>
        /\ experiments[pos].args = <<Entry(<<"r", "e", "s", "o", "l", "u", "t", "i", "o", "n">>, PyInt(4)),
                                     Entry(<<"m", "a", "x", "_", "s", "h", "a", "p", "e", "s">>, PyInt(6400000)),
                                     Entry(<<"o", "u", "t", "d", "o", "o", "r">>, FLAG)>>
        /\ BASE_ARGS = <<Entry(<<"e", "v", "a", "l">>, PyBool(TRUE))>>
        /\ merged_args = <<Entry(<<"e", "v", "a", "l">>, PyBool(TRUE)),
                           Entry(<<"r", "e", "s", "o", "l", "u", "t", "i", "o", "n">>, PyInt(4)),
                           Entry(<<"m", "a", "x", "_", "s", "h", "a", "p", "e", "s">>, PyInt(6400000)),
                           Entry(<<"o", "u", "t", "d", "o", "o", "r">>, FLAG),
                           Entry(<<"m", "o", "d", "e", "l", "_", "p", "a", "t", "h">>, PyStr(BicycleModelPath)),
                           Entry(<<"s", "o", "u", "r", "c", "e", "_", "p", "a", "t", "h">>, PyStr(BicycleSourcePath))>>
        /\ SubSeq(command, 3, Len(command)) =
               <<<<"-", "-", "e", "v", "a", "l">>, <<"-", "-", "r", "e", "s", "o", "l", "u", "t", "i", "o", "n">>, <<"4">>, <<"-", "-", "m", "a", "x", "_", "s", "h", "a", "p", "e", "s">>, <<"6", "4", "0", "0", "0", "0", "0">>,
                 <<"-", "-", "o", "u", "t", "d", "o", "o", "r">>, <<"-", "-", "m", "o", "d", "e", "l", "_", "p", "a", "t", "h">>, BicycleModelPath,
                 <<"-", "-", "s", "o", "u", "r", "c", "e", "_", "p", "a", "t", "h">>, BicycleSourcePath>>

C9_Witness ==
    /\ pc = "wait" /\ pos = 1 /\ entry = "__main__"
    /\ experiments[pos].name = <<"b", "i", "c", "y", "c", "l", "e">>
    /\ Len(command) = 12

\* C10: no step changes BASE_ARGS or the list of experiments and their args,
\* and the command built for an experiment is the one built from the
\* literal BASE_ARGS and that experiment alone, whatever ran before it.
C10_NoMutation ==
    /\ [][BASE_ARGS' = BASE_ARGS /\ experiments' = experiments]_vars
    /\ [](/\ BASE_ARGS = BASE_ARGS_0
          /\ \A j \in DOMAIN experiments :
               experiments[j] \in ExperimentPool \cup Range(EXPERIMENTS)
          /\ pc = "wait" =>
               command = <<sys_executable, TRAIN_SCRIPT>>
                         \o args_to_cli(resolved_args(experiments[pos], BASE_ARGS_0).ret))

C10_Witness ==
    /\ Len(exited) >= 2
    /\ Failed
    /\ experiments[1].name = <<"M", "y", " ", "R", "u", "n">>
    /\ BASE_ARGS = BASE_ARGS_0
    /\ ~HasKey(experiments[2].args, k_model_path)

(* ====================================================================== *)
(* Experiment.resolved_args: SpecResolve                                  *)
(* ====================================================================== *)
PathKeys == {k_model_path, k_source_path}
DefaultPath(key, name) ==
    IF key = k_model_path
    THEN PyStr(<<"/", "w", "/", "t", "s", "/", "o", "u", "t", "p", "u", "t", "/", "e", "x", "p", "e", "r", "i", "m", "e", "n", "t", "s", "/">> \o slugify(name))
    ELSE PyStr(<<"/", "w", "/", "d", "a", "t", "a", "s", "e", "t", "/", "a", "s", "s", "e", "t", "s", "/">> \o slugify(name))

\* C4 as stated: the resolved dict has both path keys; a key the
\* experiment's args supply keeps the supplied value, and every other one
\* holds the default path that ends in slugify(name).
C4_ArgsOrDefault ==
    hpc = "resolved" =>
        \A key \in PathKeys :
            /\ HasKey(overrides, key)
            /\ IF HasKey(self.args, key)
               THEN Get(overrides, key) = Get(self.args, key)
               ELSE Get(overrides, key) = DefaultPath(key, self.name)

\* C4 as amended: the resolved dict has both path keys; a key the
\* experiment's args supply keeps the supplied value; otherwise a key the
\* base supplies keeps the base's value; otherwise the key holds the default
\* path that ends in slugify(name).
C4_ArgsOrBaseOrDefault ==
    hpc = "resolved" =>
        \A key \in PathKeys :
            /\ HasKey(overrides, key)
            /\ IF HasKey(self.args, key)
               THEN Get(overrides, key) = Get(self.args, key)
               ELSE IF HasKey(base, key)
               THEN Get(overrides, key) = Get(base, key)
               ELSE Get(overrides, key) = DefaultPath(key, self.name)

C4_Witness ==
    /\ hpc = "resolved"
    /\ self.name = <<"M", "y", " ", "R", "u", "n">>
    /\ HasKey(self.args, k_model_path) /\ Get(self.args, k_model_path) = PyNone
    /\ HasKey(base, k_model_path)
    /\ ~HasKey(self.args, k_source_path) /\ ~HasKey(base, k_source_path)
    /\ Get(overrides, k_model_path) = PyNone
    /\ Get(overrides, k_source_path) = PyStr(<<"/", "w", "/", "d", "a", "t", "a", "s", "e", "t", "/", "a", "s", "s", "e", "t", "s", "/", "m", "y", "-", "r", "u", "n">>)

(* ====================================================================== *)
(* slugify: SpecSlugify                                                   *)
(* ====================================================================== *)
\* C5: slugify(slugify(x)) = slugify(x) for every string x.
C5_Idempotent == hpc = "reslugified" => reslug = slug

C5_Witness ==
    /\ hpc = "reslugified"
    /\ value = <<"-", "!", "B">>
    /\ slug = <<"b">>
    /\ reslug = slug

\* C6: slugify never returns the empty string; it returns run for the empty
\* string and for every string made only of "-" and of characters outside
\* [a-zA-Z0-9_-].
C6_NonEmpty ==
    hpc \in {"slugified", "reslugified"} =>
        /\ slug # <<>>
        /\ (\A j \in DOMAIN value : value[j] = "-" \/ value[j] \notin SlugClass)
               => slug = <<"r", "u", "n">>

C6_Witness ==
    /\ hpc = "slugified"
    /\ value = <<" ", "-", "!">>
    /\ slug = <<"r", "u", "n">>

(* ====================================================================== *)
(* args_to_cli: SpecCli                                                   *)
(* ====================================================================== *)
\* the tokens one key contributes
TokenGroup(e) ==
    LET key_flag == <<"-", "-">> \o e.k
    IN  CASE e.v.t = "none" -> <<>>
          [] e.v.t = "bool" -> IF e.v.b THEN <<key_flag>> ELSE <<>>
          [] e.v.t = "flag" -> <<key_flag>>
          [] e.v.t \in {"list", "tuple"} ->
                <<key_flag>> \o [j \in 1..Len(e.v.l) |-> str(e.v.l[j])]
          [] OTHER -> <<key_flag, str(e.v)>>

RECURSIVE ConcatGroups(_)
ConcatGroups(m) ==
    IF m = <<>> THEN <<>> ELSE TokenGroup(Head(m)) \o ConcatGroups(Tail(m))

\* C7: the result of args_to_cli is the concatenation, in insertion order,
\* of each key's token group: --key for FLAG, --key and the stringified
\* elements in order for a list or tuple, --key and str(value) for any other
\* value that is neither None nor a bool; {a: FLAG, b: [1, 2]} gives
\* --a --b 1 2.
C7_OrderPreserving ==
    hpc = "serialized" =>
        /\ cli_args = ConcatGroups(arg_mapping)
        /\ arg_mapping = <<Entry(<<"a">>, FLAG), Entry(<<"b">>, PyList(<<ElemInt(1), ElemInt(2)>>))>>
               => cli_args = <<<<"-", "-", "a">>, <<"-", "-", "b">>, <<"1">>, <<"2">>>>

C7_Witness ==
    /\ hpc = "serialized"
    /\ arg_mapping = <<Entry(<<"b">>, PyList(<<ElemInt(1), ElemInt(2)>>)), Entry(<<"a">>, PyInt(-1))>>
    /\ cli_args = <<<<"-", "-", "b">>, <<"1">>, <<"2">>, <<"-", "-", "a">>, <<"-", "1">>>>

\* C8: a key whose value is None or False contributes no token, a key whose
\* value is True contributes the single token --key, and in both cases the
\* tokens of the keys before and after it are those they have without it.
C8_NoneAndBool ==
    hpc = "serialized" =>
        \A j \in DOMAIN arg_mapping :
            LET before == SubSeq(arg_mapping, 1, j - 1)
                after == SubSeq(arg_mapping, j + 1, Len(arg_mapping))
                v == arg_mapping[j].v
            IN  /\ (v = PyNone \/ v = PyBool(FALSE))
                       => cli_args = args_to_cli(before) \o args_to_cli(after)
                /\ v = PyBool(TRUE)
                       => cli_args = args_to_cli(before)
                                     \o << <<"-", "-">> \o arg_mapping[j].k >>
                                     \o args_to_cli(after)

C8_Witness ==
    /\ hpc = "serialized"
    /\ arg_mapping = <<Entry(<<"a">>, PyBool(TRUE)), Entry(<<"c">>, PyBool(FALSE))>>
    /\ cli_args = << <<"-", "-", "a">> >>

=============================================================================
